---- MODULE Spec2Model ----
(***************************************************************************)
(* Overlap-add STFT buffering engine of OverlappingFFTProcessor.h.         *)
(*                                                                         *)
(* Samples are kept symbolically.  An input sample is the pair             *)
(* <<channel, stream index>>; a windowed sample is the term                *)
(* <<channel, stream index, window index>>, standing for                   *)
(* x[channel][stream index] * window[window index]; a buffer cell of       *)
(* fftInOutBuffer / outputBuffer is the bag of the terms summed into it.   *)
(* Value(cell, sig) evaluates a cell for a concrete signal in fixed point  *)
(* (One = 1.0).  An uninitialised or stale float is the Poison term.       *)
(***************************************************************************)
EXTENDS Integers, Naturals, Sequences, FiniteSets, Bags, TLC

VARIABLES
    fftSize,                    \* const int fftSize
    hopSize,                    \* const int hopSize
    window,                     \* std::vector<float> window
    fftInOutBuffer,             \* AudioBuffer<float> fftInOutBuffer
    nChIn,                      \* int nChIn
    nChOut,                     \* int nChOut
    notYetUsedAudioData,        \* AudioBuffer<float> notYetUsedAudioData
    outputBuffer,               \* AudioBuffer<float> outputBuffer
    outputOffset,               \* int outputOffset
    notYetUsedAudioDataCount,   \* int notYetUsedAudioDataCount
    memcpyBackward,             \* the build's memcpy copies from the high end
    host,                       \* what the caller negotiated at prepare
    fault,                      \* out-of-contract memory accesses of the last call
    fed,                        \* input samples fed since prepare
    outStream,                  \* per output-block channel, the samples emitted since prepare
    frameLog,                   \* <<frame start, output stream index>> of each writeBackFrame
    transformLog,               \* what each processFrameInBuffer call saw, since prepare
    last,                       \* locals of the last process call
    twin                        \* a FftWithHopSizeAndHannWindowProcessor<fftPowerOf2> driven alongside

vars == <<fftSize, hopSize, window, fftInOutBuffer, nChIn, nChOut,
          notYetUsedAudioData, outputBuffer, outputOffset,
          notYetUsedAudioDataCount, memcpyBackward, host, fault, fed,
          outStream, frameLog, transformLog, last, twin>>

(***************************************************************************)
(* Bounds of the model.                                                    *)
(***************************************************************************)
\* prepare is called with maximumBlockSize in 1..MaxBlockSize (or ScenarioBlock)
MaxBlockSize == 3
\* channel counts are drawn from ChannelCounts for frames up to WideFft
\* samples; longer frames are prepared mono
ChannelCounts == 1..2
WideFft == 2^2
\* a stream is fed up to StreamLimit samples after a prepare, MaxExtra of
\* them beyond the second frame
MaxExtra == 1
\* <<fftSizeAsPowerOf2, hopSizeDividerAsPowerOf2>> of the engines built
FftConfigs == {c \in (1..2) \X (1..2) : c[2] <= c[1]} \cup {<<3, 1>>, <<3, 3>>}
\* the concrete scenario: frame 16, hop 4, one call of 64 samples
ScenarioConfig == <<4, 2>>
ScenarioBlock == 2^6

Min(a, b) == IF a < b THEN a ELSE b
Max(a, b) == IF a > b THEN a ELSE b

(***************************************************************************)
(* Fixed point and symbolic samples.                                       *)
(***************************************************************************)
One == 2^14
PiFixed == (One * 31416) \div 10000

Indeterminate == 0 - 1
PoisonSample == <<Indeterminate, Indeterminate>>
PoisonTerm == <<Indeterminate, Indeterminate, Indeterminate>>
Poison == SetToBag({PoisonTerm})
Zero == EmptyBag

IsPoisoned(cell) == BagIn(PoisonTerm, cell)

\* one float of a FloatVectorOperations::multiply (dest, audio, window, n)
Windowed(sample, i) ==
    IF sample = PoisonSample THEN Poison
    ELSE SetToBag({<<sample[1], sample[2], i>>})

\* a buffer of ch channels and len floats, every float equal to cell
Buffer(ch, len, cell) == [c \in 0..(ch - 1) |-> [j \in 0..(len - 1) |-> cell]]
NumChannels(buf) == Cardinality(DOMAIN buf)
NumSamples(buf) == IF DOMAIN buf = {} THEN 0 ELSE Cardinality(DOMAIN buf[0])

(***************************************************************************)
(* dsp::WindowingFunction<float>::fillWindowingTables (hann, normalise =   *)
(* false): samples[i] = 0.5 - 0.5 * cos (2 * i * pi / (size - 1)).         *)
(***************************************************************************)
\* cos x for 0 <= x <= pi/2, x and result in fixed point (Taylor to x^10)
CosQuadrant(x) ==
    LET x2 == (x * x) \div One
        t1 == x2 \div 2
        t2 == ((t1 * x2) \div One) \div 12
        t3 == ((t2 * x2) \div One) \div 30
        t4 == ((t3 * x2) \div One) \div 56
        t5 == ((t4 * x2) \div One) \div 90
    IN  One - t1 + t2 - t3 + t4 - t5

\* cos (2 * pi * i / n) for 0 <= i <= n, in fixed point
Cos2Pi(i, n) ==
    LET j == IF 2 * i <= n THEN i ELSE n - i
    IN  IF 4 * j <= n
        THEN CosQuadrant((2 * PiFixed * j) \div n)
        ELSE 0 - CosQuadrant((PiFixed * (n - 2 * j)) \div n)

HannTable(size) ==
    [i \in 0..(size - 1) |-> (One - Cos2Pi(i, size - 1)) \div 2]


\* a float that is not a finite number: 1.0f / 0 and 0 * (1.0f / 0)
Infinity == "inf"
NotANumber == "nan"

\* OverlappingFFTProcessor::createWindow, the default.  With hopSize = 0 the
\* integer division fftSize / hopSize is undefined and the factor is
\* indeterminate; with hopSize = fftSize the factor is 1.0f / 0
createWindow(N, hop) ==
    LET hann == HannTable(N)
        divisor == IF hop = 0 THEN Indeterminate
                   ELSE (N \div hop) \div 2   \* hopSizeCompensateFactor = 1 / divisor
    IN  [i \in 0..(N - 1) |->
            IF divisor = Indeterminate THEN Indeterminate
            ELSE IF divisor = 0
                 THEN (IF hann[i] = 0 THEN NotANumber ELSE Infinity)
                 ELSE hann[i] \div divisor]

\* a createWindow() override of a derived class: the periodic triangular
\* window, whose overlapping copies sum to exactly One for every hop
ColaWindow(N, hop) ==
    LET divisor == (N \div hop) \div 2
    IN  [i \in 0..(N - 1) |-> ((Min(i, N - i) * 2 * One) \div N) \div divisor]

\* sum of the window coefficients of all frames overlapping an output
\* sample whose window index is congruent to r modulo hop
RECURSIVE OverlapSum(_, _, _, _)
OverlapSum(w, N, hop, idx) ==
    IF idx >= N THEN 0 ELSE w[idx] + OverlapSum(w, N, hop, idx + hop)

(***************************************************************************)
(* Construction.                                                           *)
(***************************************************************************)
\* last: the latest operation (op), the carry-over count and the number of
\* frames written before it, the locals of the latest process call, the
\* offsets its writeBackFrame calls used (writes), what outputBuffer held
\* there before and after each of them (rows), the ranges <<first, number>>
\* of the input block it read (reads), the dataOffset its direct loop ended
\* at, the iterations of its frame loops with the count or the dataOffset
\* each began at (loops), how many of its reads were made when it first
\* wrote to the output block (outputAt), whether the two blocks were the
\* same memory (inPlace), for prepare the bufferSize it was given and the
\* number of iterations its offset search made (search)
\* and the channels of the caller's block its zero-fill loop cleared
NoCall == [op |-> "construct", prevCount |-> 0, prevFrames |-> 0,
           L |-> 0, tooMuch |-> 0, shiftL |-> 0, writes |-> <<>>,
           rows |-> <<>>, reads |-> <<>>, dataOffset |-> Indeterminate,
           outputAt |-> Indeterminate, inPlace |-> FALSE,
           loops |-> <<>>, bufferSize |-> 0, search |-> 0, cleared |-> {}]

\* the channel counts of the blocks the caller passes to process
BlockLayouts(N) ==
    IF N > WideFft THEN {<<1, 1>>} ELSE ChannelCounts \X ChannelCounts

\* line 79: createWindow() called in the constructor of OverlappingFFTProcessor.
\* overridden tells whether the class of the object under construction
\* overrides createWindow() (with ColaWindow); a virtual call made while the
\* base class is being constructed runs the function of the base class
WindowAtConstruction(N, hop, overridden) == createWindow(N, hop)

\* OverlappingFFTProcessor (fftSizeAsPowerOf2, hopSizeDividerAsPowerOf2);
\* stopped holds what ended the program inside the constructor, if anything
Construct(e, d, backward, layout, stopped) ==
    /\ fftSize = 2^e
    /\ hopSize = (2^e) \div (2^d)
    /\ \E overridden \in BOOLEAN :
          window = WindowAtConstruction(2^e, (2^e) \div (2^d), overridden)
    /\ fftInOutBuffer = Buffer(0, 0, Poison)
    /\ notYetUsedAudioData = Buffer(0, 0, PoisonSample)
    /\ outputBuffer = Buffer(0, 0, Poison)
    /\ nChIn = Indeterminate
    /\ nChOut = Indeterminate
    /\ outputOffset = Indeterminate
    /\ notYetUsedAudioDataCount = 0
    /\ memcpyBackward = backward
    /\ host = [prepared |-> FALSE, maxBlock |-> 0,
               blkIn |-> layout[1], blkOut |-> layout[2]]
    /\ fault = stopped
    /\ fed = 0
    /\ outStream = [c \in 0..(layout[2] - 1) |-> <<>>]
    /\ frameLog = <<>>
    /\ transformLog = <<>>
    /\ last = NoCall

Constructed(e, d, backward, layout) == Construct(e, d, backward, layout, {})

\* no second engine is driven alongside
Absent == [engaged |-> FALSE]

Init ==
    /\ \E c \in FftConfigs \cup {ScenarioConfig}, backward \in BOOLEAN :
          \E layout \in BlockLayouts(2^c[1]) :
              Constructed(c[1], c[2], backward, layout)
    /\ twin = Absent

(***************************************************************************)
(* prepare                                                                 *)
(***************************************************************************)

\* k = floor (1.0f + ((float) (bufferSize - 1)) / hopSize); with hopSize = 0
\* the quotient is not finite and its conversion to int is indeterminate
PrepareK(bufferSize, hop) ==
    IF hop = 0 THEN Indeterminate ELSE 1 + ((bufferSize - 1) \div hop)

OutputCapacity_NoSlack(N, hop, bufferSize) ==
    PrepareK(bufferSize, hop) * hop + (N - hop)

\* M + bufferSize - 1, the length outputBuffer is given
OutputCapacity(N, hop, bufferSize) ==
    LET k == PrepareK(bufferSize, hop)
        M == (IF hop = 0 THEN 0 ELSE k * hop) + (N - hop)
    IN  M + bufferSize - 1

\* the arguments the caller prepares an engine with
PrepareArgs ==
    IF fftSize = 2^ScenarioConfig[1]
    THEN {[maxBlock |-> ScenarioBlock, nIn |-> 1, nOut |-> 1]}
    ELSE IF fftSize > WideFft
    THEN [maxBlock : 1..MaxBlockSize, nIn : {1}, nOut : {1}]
    ELSE [maxBlock : 1..MaxBlockSize, nIn : ChannelCounts, nOut : ChannelCounts]

\* lines 107-111: the offset the search loop leaves, which line 113 overwrites
RECURSIVE OffsetSearch(_, _)
OffsetSearch(offset, bufferSize) ==
    IF offset < fftSize THEN OffsetSearch(offset + bufferSize, bufferSize)
    ELSE offset - bufferSize

\* lines 107-109: the number of iterations the search loop makes from
\* offset on, n being those already made; with bufferSize <= 0 the offset
\* never reaches fftSize and the loop has no exit
RECURSIVE SearchIterations(_, _, _)
SearchIterations(offset, bufferSize, n) ==
    IF offset < fftSize
    THEN IF bufferSize <= 0 THEN Indeterminate
         ELSE SearchIterations(offset + bufferSize, bufferSize, n + 1)
    ELSE n

\* whether prepare gets past its search loop.  A loop without exit and
\* without side effects is undefined: the build either runs it forever or,
\* as line 113 makes its result dead, drops it
SearchEnds(bufferSize) ==
    IF SearchIterations(0, bufferSize, 0) = Indeterminate
    THEN BOOLEAN ELSE {TRUE}

InitialOutputOffset_Searched(bufferSize) == OffsetSearch(0, bufferSize)

InitialOutputOffset_HopAligned(bufferSize) == fftSize - hopSize

\* line 113: outputOffset = fftSize - 1
InitialOutputOffset(bufferSize) == fftSize - 1

prepare_ShortCarry(a) ==
    /\ nChIn' = a.nIn
    /\ nChOut' = a.nOut
    /\ notYetUsedAudioData' = Buffer(a.nIn, fftSize - 2, PoisonSample)
    /\ fftInOutBuffer' = Buffer(Max(a.nIn, a.nOut), 2 * fftSize, Poison)
    /\ outputBuffer' = Buffer(a.nIn, OutputCapacity(fftSize, hopSize, a.maxBlock), Zero)
    /\ outputOffset' = InitialOutputOffset(a.maxBlock)
    /\ notYetUsedAudioDataCount' = 0

prepare_KeepCount(a) ==
    /\ nChIn' = a.nIn
    /\ nChOut' = a.nOut
    /\ notYetUsedAudioData' = Buffer(a.nIn, fftSize - 1, PoisonSample)
    /\ fftInOutBuffer' = Buffer(Max(a.nIn, a.nOut), 2 * fftSize, Poison)
    /\ outputBuffer' = Buffer(a.nIn, OutputCapacity(fftSize, hopSize, a.maxBlock), Zero)
    /\ outputOffset' = InitialOutputOffset(a.maxBlock)
    /\ notYetUsedAudioDataCount' = notYetUsedAudioDataCount

prepare(a) ==
    /\ nChIn' = a.nIn
    /\ nChOut' = a.nOut
    /\ notYetUsedAudioData' = Buffer(a.nIn, fftSize - 1, PoisonSample)
    /\ fftInOutBuffer' = Buffer(Max(a.nIn, a.nOut), 2 * fftSize, Poison)
    /\ outputBuffer' = Buffer(a.nIn, OutputCapacity(fftSize, hopSize, a.maxBlock), Zero)
    /\ outputOffset' = InitialOutputOffset(a.maxBlock)
    /\ notYetUsedAudioDataCount' = 0

\* lines 92-105, which is as far as a prepare gets whose search loop runs
\* forever
prepare_Searching(a) ==
    /\ nChIn' = a.nIn
    /\ nChOut' = a.nOut
    /\ notYetUsedAudioData' = Buffer(a.nIn, fftSize - 1, PoisonSample)
    /\ fftInOutBuffer' = Buffer(Max(a.nIn, a.nOut), 2 * fftSize, Poison)
    /\ outputBuffer' = Buffer(a.nIn, OutputCapacity(fftSize, hopSize, a.maxBlock), Zero)
    /\ UNCHANGED <<outputOffset, notYetUsedAudioDataCount>>

\* prepare called with one of args; a call that does not return leaves the
\* caller where it was
PrepareWith(args) ==
    /\ fault = {}
    /\ \E a \in args :
        \E ends \in SearchEnds(a.maxBlock) :
            /\ last' = [NoCall EXCEPT !.op = "prepare",
                                      !.prevCount = notYetUsedAudioDataCount,
                                      !.prevFrames = Len(frameLog),
                                      !.bufferSize = a.maxBlock,
                                      !.search = SearchIterations(0, a.maxBlock, 0)]
            /\ IF ends
               THEN /\ prepare(a)
                    /\ host' = [host EXCEPT !.prepared = TRUE,
                                            !.maxBlock = a.maxBlock]
                    /\ fed' = 0
                    /\ outStream' = [c \in DOMAIN outStream |-> <<>>]
                    /\ frameLog' = <<>>
                    /\ transformLog' = <<>>
                    /\ fault' = {}
               ELSE /\ prepare_Searching(a)
                    /\ fault' = {"endlessLoop"}
                    /\ UNCHANGED <<host, fed, outStream, frameLog, transformLog>>
    /\ UNCHANGED <<fftSize, hopSize, window, memcpyBackward>>

PrepareEngine == PrepareWith(PrepareArgs)

Prepare == PrepareEngine /\ UNCHANGED twin

(***************************************************************************)
(* process: the machine state m of one call carries the members the call   *)
(* changes (nyu = notYetUsedAudioData, cnt = notYetUsedAudioDataCount,     *)
(* fft = fftInOutBuffer, ob = outputBuffer, oo = outputOffset), the        *)
(* faults raised so far and what the call logged (log and writes by         *)
(* writeBackFrame, calls by processFrameInBuffer, reads of the input block *)
(* and, once the output block is written, the number of reads made before).*)
(***************************************************************************)
\* lines 119-122 and PluginProcessor.cpp lines 137-139: a replacing context
\* hands one block to process as input and as output, so both have the same
\* channels; a block pair with equal channel counts is taken to be that one
InPlace == host.blkIn = host.blkOut

Machine ==
    [nyu |-> notYetUsedAudioData, cnt |-> notYetUsedAudioDataCount,
     fft |-> fftInOutBuffer, ob |-> outputBuffer, oo |-> outputOffset,
     flt |-> {}, log |-> <<>>, writes |-> <<>>, calls |-> <<>>,
     rows |-> <<>>, reads |-> <<>>, dataOffset |-> Indeterminate,
     outputAt |-> Indeterminate, inPlace |-> InPlace, loops |-> <<>>]

\* inputBlock.getChannelPointer (ch) [j] of a block of L samples
InputAt(ch, j, L) ==
    IF ch >= 0 /\ ch < host.blkIn /\ j >= 0 /\ j < L
    THEN <<ch, fed + j>> ELSE PoisonSample

\* what a read of the input block finds in the machine state m: the sample
\* delivered, unless the call has already written the output block into
\* the same memory
InputSeen(m, ch, j, L) ==
    IF m.inPlace /\ m.outputAt # Indeterminate
    THEN PoisonSample ELSE InputAt(ch, j, L)

\* buf.getReadPointer (ch) [j]
CellAt(buf, ch, j, dflt) ==
    IF ch \in DOMAIN buf /\ j \in DOMAIN buf[ch] THEN buf[ch][j] ELSE dflt

\* the input stream index the frame in fftInOutBuffer starts at
FrameStart(fft) ==
    LET cell == CellAt(fft, 0, 0, Poison)
    IN  IF IsPoisoned(cell) \/ BagToSet(cell) = {} THEN Indeterminate
        ELSE LET t == CHOOSE x \in BagToSet(cell) : TRUE IN t[2] - t[3]

\* FloatVectorOperations::copy (row + dst, row + src, n) is a memcpy: when
\* the two ranges overlap (dst < src < dst + n) the result depends on the
\* order the build's memcpy moves the floats in
RECURSIVE BackwardSource(_, _, _)
BackwardSource(k, d, n) ==
    IF k + d >= n THEN k ELSE BackwardSource(k + d, d, n)

CopyWithin(row, dst, src, n) ==
    LET d == src - dst
    IN  [j \in DOMAIN row |->
            IF j >= dst /\ j < dst + n
            THEN IF memcpyBackward /\ d > 0 /\ d < n
                 THEN row[src + BackwardSource(j - dst, d, n)]
                 ELSE row[j + d]
            ELSE row[j]]

\* the time-domain frame in fftInOutBuffer: its first fftSize floats
FrameIn(fft) ==
    [c \in DOMAIN fft |-> [i \in 0..(fftSize - 1) |-> fft[c][i]]]

\* virtual processFrameInBuffer (maxNumChannels), the default: it leaves the
\* frame as it is; the model notes the frame it was handed and the number
\* of frames written back before it
processFrameInBuffer(m, maxNumChannels) ==
    [m EXCEPT !.calls = Append(@, [seen |-> FrameIn(m.fft),
                                    written |-> Len(frameLog) + Len(m.log)])]

OverlapAddRow_AddOnly(obRow, fftRow, oo) ==
    [j \in DOMAIN obRow |->
        IF j >= oo /\ j < oo + fftSize
        THEN obRow[j] (+) fftRow[j - oo]
        ELSE obRow[j]]

\* the two writes of one channel of writeBackFrame
OverlapAddRow(obRow, fftRow, oo) ==
    [j \in DOMAIN obRow |->
        IF j >= oo /\ j < oo + fftSize - hopSize
        THEN obRow[j] (+) fftRow[j - oo]
        ELSE IF j >= oo + fftSize - hopSize /\ j < oo + fftSize
             THEN fftRow[j - oo]
             ELSE obRow[j]]

WriteBackChannels == nChOut

\* outputBuffer [oo, oo + fftSize) of the channels writeBackFrame writes
RowsAt(ob, chans, oo) ==
    [c \in {ch \in DOMAIN ob : ch < chans} |->
        [i \in 0..(fftSize - 1) |-> CellAt(ob, c, oo + i, Poison)]]

writeBackFrame_FrameAdvance(m) ==
    LET chans == WriteBackChannels
        flt == (IF chans > NumChannels(m.ob) \/ chans > NumChannels(m.fft)
                THEN {"writeBackChannel"} ELSE {})
               \cup
               (IF m.oo < 0 \/ m.oo + fftSize > NumSamples(m.ob)
                THEN {"writeBackRange"} ELSE {})
        ob2 == [c \in DOMAIN m.ob |->
                   IF c < chans THEN OverlapAddRow(m.ob[c], m.fft[c], m.oo)
                   ELSE m.ob[c]]
    IN  [m EXCEPT !.flt = m.flt \cup flt,
                  !.writes = Append(m.writes, m.oo),
                  !.rows = Append(m.rows,
                                  [before |-> RowsAt(m.ob, chans, m.oo),
                                   after |-> RowsAt(IF flt = {} THEN ob2 ELSE m.ob,
                                                    chans, m.oo)]),
                  !.log = Append(m.log, <<FrameStart(m.fft), fed + m.oo>>),
                  !.ob = IF flt = {} THEN ob2 ELSE m.ob,
                  !.oo = m.oo + fftSize]

\* lines 255-263
writeBackFrame(m) ==
    LET chans == WriteBackChannels
        flt == (IF chans > NumChannels(m.ob) \/ chans > NumChannels(m.fft)
                THEN {"writeBackChannel"} ELSE {})
               \cup
               (IF m.oo < 0 \/ m.oo + fftSize > NumSamples(m.ob)
                THEN {"writeBackRange"} ELSE {})
        ob2 == [c \in DOMAIN m.ob |->
                   IF c < chans THEN OverlapAddRow(m.ob[c], m.fft[c], m.oo)
                   ELSE m.ob[c]]
    IN  [m EXCEPT !.flt = m.flt \cup flt,
                  !.writes = Append(m.writes, m.oo),
                  !.rows = Append(m.rows,
                                  [before |-> RowsAt(m.ob, chans, m.oo),
                                   after |-> RowsAt(IF flt = {} THEN ob2 ELSE m.ob,
                                                    chans, m.oo)]),
                  !.log = Append(m.log, <<FrameStart(m.fft), fed + m.oo>>),
                  !.ob = IF flt = {} THEN ob2 ELSE m.ob,
                  !.oo = m.oo + hopSize]

\* lines 145-159: the frame built from the carry-over and the input head
FrameFromCarry(m, L, numChIn, off) ==
    LET flt == (IF off + m.cnt > NumSamples(m.nyu) THEN {"carryRead"} ELSE {})
               \cup (IF fftSize - m.cnt > L THEN {"inputRead"} ELSE {})
    IN  [m EXCEPT
           !.flt = m.flt \cup flt,
           !.reads = Append(@, <<0, fftSize - m.cnt>>),
           !.loops = Append(@, <<"carry", m.cnt>>),
           !.fft = [c \in DOMAIN m.fft |->
                      IF c < numChIn
                      THEN [i \in DOMAIN m.fft[c] |->
                              IF i < m.cnt
                              THEN Windowed(CellAt(m.nyu, c, off + i, PoisonSample), i)
                              ELSE IF i < fftSize
                                   THEN Windowed(InputSeen(m, c, i - m.cnt, L), i)
                                   ELSE m.fft[c][i]]
                      ELSE m.fft[c]]]

\* lines 142-167: we've got some left overs.  With hopSize = 0 the count
\* never decreases and the loop does not end
RECURSIVE CarryLoop(_, _, _, _, _)
CarryLoop(m, L, numChIn, maxNumChannels, off) ==
    IF m.flt = {} /\ m.cnt > 0 /\ m.cnt + L >= fftSize
    THEN LET built == FrameFromCarry(m, L, numChIn, off)
             done == IF built.flt = {}
                     THEN writeBackFrame(processFrameInBuffer(built, maxNumChannels))
                     ELSE built
         IN  IF hopSize = 0
             THEN [done EXCEPT !.flt = @ \cup {"endlessLoop"}]
             ELSE CarryLoop([done EXCEPT !.cnt = m.cnt - hopSize],
                            L, numChIn, maxNumChannels, off + hopSize)
    ELSE m

\* lines 169-181: not enough new input samples to use all of the previous data
KeepCarry(m, L, numChIn, initialCount) ==
    LET usedSamples == 0
        flt == IF m.cnt + L > NumSamples(m.nyu) THEN {"carryWrite"} ELSE {}
        moved(row) == CopyWithin(row, 0, initialCount - m.cnt, m.cnt)
    IN  [m EXCEPT
           !.flt = m.flt \cup flt,
           !.reads = Append(@, <<usedSamples, L>>),
           !.nyu = IF flt # {} THEN m.nyu
                   ELSE [c \in DOMAIN m.nyu |->
                           IF c < numChIn
                           THEN [j \in DOMAIN m.nyu[c] |->
                                   IF j >= m.cnt /\ j < m.cnt + L
                                   THEN InputSeen(m, c, usedSamples + j - m.cnt, L)
                                   ELSE moved(m.nyu[c])[j]]
                           ELSE m.nyu[c]],
           !.cnt = m.cnt + L]

\* lines 188-193: the frame built from the input alone
FrameFromInput(m, L, numChIn, dataOffset) ==
    LET flt == IF dataOffset < 0 \/ dataOffset + fftSize > L
               THEN {"inputRead"} ELSE {}
    IN  [m EXCEPT
           !.flt = m.flt \cup flt,
           !.reads = Append(@, <<dataOffset, fftSize>>),
           !.loops = Append(@, <<"direct", dataOffset>>),
           !.fft = [c \in DOMAIN m.fft |->
                      IF c < numChIn
                      THEN [i \in DOMAIN m.fft[c] |->
                              IF i < fftSize
                              THEN Windowed(InputSeen(m, c, dataOffset + i, L), i)
                              ELSE m.fft[c][i]]
                      ELSE m.fft[c]]]

RECURSIVE DirectLoop_StepsBack(_, _, _, _, _)
DirectLoop_StepsBack(m, L, numChIn, maxNumChannels, dataOffset) ==
    IF m.flt = {} /\ L - dataOffset >= fftSize
    THEN LET built == FrameFromInput(m, L, numChIn, dataOffset)
             done == IF built.flt = {}
                     THEN writeBackFrame(processFrameInBuffer(built, maxNumChannels))
                     ELSE built
         IN  IF hopSize = 0
             THEN <<[done EXCEPT !.flt = @ \cup {"endlessLoop"}], dataOffset>>
             ELSE DirectLoop_StepsBack(done, L, numChIn, maxNumChannels,
                                       dataOffset - hopSize)
    ELSE <<m, dataOffset>>

\* lines 186-198; the result pairs the machine with the final dataOffset.
\* With hopSize = 0 dataOffset never advances and the loop does not end
RECURSIVE DirectLoop(_, _, _, _, _)
DirectLoop(m, L, numChIn, maxNumChannels, dataOffset) ==
    IF m.flt = {} /\ L - dataOffset >= fftSize
    THEN LET built == FrameFromInput(m, L, numChIn, dataOffset)
             done == IF built.flt = {}
                     THEN writeBackFrame(processFrameInBuffer(built, maxNumChannels))
                     ELSE built
         IN  IF hopSize = 0
             THEN <<[done EXCEPT !.flt = @ \cup {"endlessLoop"}], dataOffset>>
             ELSE DirectLoop(done, L, numChIn, maxNumChannels, dataOffset + hopSize)
    ELSE <<m, dataOffset>>

StoreRemaining_CountsBlock(r, L, numChIn) ==
    LET m2 == r[1]
    IN  IF m2.flt # {} THEN m2 ELSE [m2 EXCEPT !.cnt = Min(L, fftSize - 1)]

\* lines 200-210: the samples the frame loop left over become the carry-over;
\* r pairs the machine with the dataOffset the loop ended at
StoreRemaining(r, L, numChIn) ==
    LET m2 == r[1]
        dataOffset == r[2]
        remainingSamples == L - dataOffset
        flt == IF remainingSamples > 0
                  /\ (remainingSamples > NumSamples(m2.nyu) \/ dataOffset < 0)
               THEN {"carryWrite"} ELSE {}
    IN  IF m2.flt # {} THEN m2 ELSE
        [m2 EXCEPT
           !.flt = m2.flt \cup flt,
           !.dataOffset = dataOffset,
           !.reads = IF remainingSamples > 0
                     THEN Append(@, <<dataOffset, L - dataOffset>>) ELSE @,
           !.nyu = IF flt # {} \/ remainingSamples <= 0 THEN m2.nyu
                   ELSE [c \in DOMAIN m2.nyu |->
                           IF c < numChIn
                           THEN [j \in DOMAIN m2.nyu[c] |->
                                   IF j < remainingSamples
                                   THEN InputSeen(m2, c, dataOffset + j, L)
                                   ELSE m2.nyu[c][j]]
                           ELSE m2.nyu[c]],
           !.cnt = remainingSamples]

ConsumeInput_FromCount(m, L, numChIn, maxNumChannels) ==
    StoreRemaining(DirectLoop(m, L, numChIn, maxNumChannels, m.cnt),
                   L, numChIn)

\* lines 182-211: all of the previous data used
ConsumeInput(m, L, numChIn, maxNumChannels) ==
    StoreRemaining(DirectLoop(m, L, numChIn, maxNumChannels, 0 - m.cnt),
                   L, numChIn)

ShiftLength_WholeFrame(oo, L, capacity) ==
    LET shiftStart == L
        shiftL == oo + fftSize - L
        tooMuch == shiftStart + shiftL - capacity
    IN  [tooMuch |-> tooMuch,
         shiftL |-> IF tooMuch > 0 THEN shiftL - tooMuch ELSE shiftL]

\* lines 216-220: the number of floats the left shift moves
ShiftLength(oo, L, capacity) ==
    LET shiftStart == L
        shiftL == oo + fftSize - hopSize - L
        tooMuch == shiftStart + shiftL - capacity
    IN  [tooMuch |-> tooMuch,
         shiftL |-> IF tooMuch > 0 THEN shiftL - tooMuch ELSE shiftL]

OutputBlock_ShiftLength(m, L, numChOut) ==
    [c \in 0..(host.blkOut - 1) |->
        [j \in 1..(IF c < numChOut
                   THEN ShiftLength(m.oo, L, NumSamples(m.ob)).shiftL ELSE L) |->
            IF c < numChOut THEN CellAt(m.ob, c, j - 1, Poison) ELSE Zero]]

OutputBlock_NoZeroFill(m, L, numChOut) ==
    [c \in 0..(host.blkOut - 1) |->
        [j \in 1..L |-> IF c < numChOut THEN CellAt(m.ob, c, j - 1, Poison)
                        ELSE Poison]]

\* lines 228-229: for (int ch = numChOut; ch < outputBlock.getNumChannels(); ++ch)
ZeroFilledChannels(numChOut) == numChOut..(host.blkOut - 1)

\* lines 222-229: what the call leaves in the caller's output block
OutputBlock(m, L, numChOut) ==
    [c \in 0..(host.blkOut - 1) |->
        [j \in 1..L |-> IF c < numChOut THEN CellAt(m.ob, c, j - 1, Poison)
                        ELSE Zero]]

ReturnSamples_NoRewind(m, L, numChOut) ==
    LET s == ShiftLength(m.oo, L, NumSamples(m.ob))
    IN  [m EXCEPT
           !.ob = [c \in DOMAIN m.ob |->
                     IF c < numChOut /\ s.shiftL >= 0
                     THEN CopyWithin(m.ob[c], 0, L, s.shiftL)
                     ELSE m.ob[c]]]

ReturnSamples_Shrinks(m, L, numChOut) ==
    LET s == ShiftLength(m.oo, L, NumSamples(m.ob))
        flt == (IF numChOut > NumChannels(m.ob) THEN {"outputChannel"} ELSE {})
               \cup (IF L > NumSamples(m.ob) THEN {"outputRead"} ELSE {})
               \cup (IF s.shiftL < 0 \/ L + s.shiftL > NumSamples(m.ob)
                     THEN {"shiftRange"} ELSE {})
    IN  [m EXCEPT
           !.flt = m.flt \cup flt,
           !.ob = IF flt # {} THEN m.ob
                  ELSE [c \in DOMAIN m.ob |->
                          [j \in 0..(NumSamples(m.ob) - L - 1) |-> m.ob[c][j + L]]],
           !.oo = m.oo - L]

\* lines 214-231: return processed samples from outputBuffer
ReturnSamples(m, L, numChOut) ==
    LET s == ShiftLength(m.oo, L, NumSamples(m.ob))
        flt == (IF numChOut > NumChannels(m.ob) THEN {"outputChannel"} ELSE {})
               \cup (IF L > NumSamples(m.ob) THEN {"outputRead"} ELSE {})
               \cup (IF s.shiftL < 0 \/ L + s.shiftL > NumSamples(m.ob)
                     THEN {"shiftRange"} ELSE {})
    IN  [m EXCEPT
           !.flt = m.flt \cup flt,
           !.ob = IF flt # {} THEN m.ob
                  ELSE [c \in DOMAIN m.ob |->
                          IF c < numChOut THEN CopyWithin(m.ob[c], 0, L, s.shiftL)
                          ELSE m.ob[c]],
           !.oo = m.oo - L,
           !.outputAt = IF @ = Indeterminate THEN Len(m.reads) ELSE @]

AfterCarryLoop_OutputFirst(m1, L, numChIn, maxNumChannels) ==
    LET m == [m1 EXCEPT !.outputAt = Len(m1.reads)]
    IN  IF m.flt # {} THEN m
        ELSE IF m.cnt > 0
             THEN KeepCarry(m, L, numChIn, notYetUsedAudioDataCount)
             ELSE ConsumeInput(m, L, numChIn, maxNumChannels)

\* lines 169-211: what follows the loop over the carry-over, m1 being the
\* machine that loop left; a call ends at its first out-of-range access
AfterCarryLoop(m1, L, numChIn, maxNumChannels) ==
    IF m1.flt # {} THEN m1
    ELSE IF m1.cnt > 0
         THEN KeepCarry(m1, L, numChIn, notYetUsedAudioDataCount)
         ELSE ConsumeInput(m1, L, numChIn, maxNumChannels)

\* lines 131-211: process (inputBlock, outputBlock) up to the return of the
\* samples, started in the machine state m
BufferedFrom(m, L) ==
    LET numChIn == Min(host.blkIn, nChIn)
        numChOut == Min(host.blkOut, nChOut)
        maxNumChannels == Max(numChIn, numChOut)
    IN  AfterCarryLoop(CarryLoop(m, L, numChIn, maxNumChannels, 0),
                       L, numChIn, maxNumChannels)

\* process (inputBlock, outputBlock) up to the return of the samples
Buffered(L) == BufferedFrom(Machine, L)

\* the block lengths the caller delivers
BlockLengths ==
    IF host.maxBlock = ScenarioBlock
    THEN {0, ScenarioBlock \div 4, ScenarioBlock}
    ELSE 0..host.maxBlock
\* the samples fed between two prepares: a frame and a further frame (half a
\* frame for the wide sizes) and MaxExtra more, or one block of the scenario
StreamLimit == Max(fftSize + Min(fftSize, WideFft) + MaxExtra, host.maxBlock)

\* the end of process: m is the machine the call ends with, block what it
\* left in the caller's output block and s the shift it computed
EndOfProcess(m, block, s, L, numChOut) ==
    /\ fault' = m.flt
    /\ last' = [op |-> "process",
                prevCount |-> notYetUsedAudioDataCount,
                prevFrames |-> Len(frameLog),
                L |-> L, tooMuch |-> s.tooMuch, shiftL |-> s.shiftL,
                writes |-> m.writes,
                rows |-> m.rows,
                reads |-> m.reads,
                dataOffset |-> m.dataOffset,
                outputAt |-> m.outputAt,
                inPlace |-> m.inPlace,
                loops |-> m.loops,
                bufferSize |-> 0, search |-> 0,
                cleared |-> ZeroFilledChannels(numChOut)]
    /\ IF m.flt = {}
       THEN /\ notYetUsedAudioData' = m.nyu
            /\ notYetUsedAudioDataCount' = m.cnt
            /\ fftInOutBuffer' = m.fft
            /\ outputBuffer' = m.ob
            /\ outputOffset' = m.oo
            /\ fed' = fed + L
            /\ outStream' = [c \in DOMAIN outStream |->
                                outStream[c] \o block[c]]
            /\ frameLog' = frameLog \o m.log
            /\ transformLog' = transformLog \o m.calls
       ELSE UNCHANGED <<notYetUsedAudioData, notYetUsedAudioDataCount,
                        fftInOutBuffer, outputBuffer, outputOffset,
                        fed, outStream, frameLog, transformLog>>

\* lines 214-231 applied to the machine b that the frame loops left
ReturnBuffered(b, L, numChOut) ==
    EndOfProcess(IF b.flt = {} THEN ReturnSamples(b, L, numChOut) ELSE b,
                 OutputBlock(b, L, numChOut),
                 ShiftLength(b.oo, L, NumSamples(b.ob)),
                 L, numChOut)

\* process called with a block whose length is one of lengths
ProcessBlocks(lengths) ==
    /\ host.prepared
    /\ fault = {}
    /\ \E L \in lengths :
        /\ fed + L <= StreamLimit
        /\ ReturnBuffered(Buffered(L), L, Min(host.blkOut, nChOut))
    /\ UNCHANGED <<fftSize, hopSize, window, nChIn, nChOut, memcpyBackward, host>>

Process == ProcessBlocks(BlockLengths) /\ UNCHANGED twin

(***************************************************************************)
(* reset                                                                   *)
(***************************************************************************)
\* void reset() {}
reset ==
    UNCHANGED <<nChIn, nChOut, notYetUsedAudioData, fftInOutBuffer,
                outputBuffer, outputOffset, notYetUsedAudioDataCount>>

ResetEngine ==
    /\ fault = {}
    /\ reset
    /\ last' = [NoCall EXCEPT !.op = "reset",
                              !.prevCount = notYetUsedAudioDataCount,
                              !.prevFrames = Len(frameLog)]
    /\ UNCHANGED <<fftSize, hopSize, window, memcpyBackward, host, fault,
                   fed, outStream, frameLog, transformLog>>

Reset == ResetEngine /\ UNCHANGED twin

Next == Prepare \/ Process \/ Reset

Spec == Init /\ [][Next]_vars

(***************************************************************************)
(* FftWithHopSizeAndHannWindowProcessor<fftPowerOf2>, the variant with the *)
(* frame size fixed at compile time and hopSize = fftSize / 2              *)
(* (fftWithHopSizeAndHannWindowProcessor.h), driven alongside the engine   *)
(* with the same calls.  twin holds its members in the fields of Machine   *)
(* (flt, log, writes and calls accumulate since its prepare, reads and     *)
(* loops are those of its last call), its window and the samples it        *)
(* emitted.  Its frame building (lines 119-186) is the code of lines       *)
(* 142-211 of OverlappingFFTProcessor.h with nChannels, the channel count  *)
(* of the input block, in place of numChIn.                                *)
(***************************************************************************)
\* FftWithHopSizeAndHannWindowProcessor(): the Hann table, then reset()
FixedConstructed(N, blkOut) ==
    [engaged |-> TRUE, window |-> HannTable(N),
     nyu |-> Buffer(0, 0, PoisonSample), cnt |-> 0,
     fft |-> Buffer(0, 0, Poison), ob |-> Buffer(0, 0, Poison),
     oo |-> Indeterminate, flt |-> {}, log |-> <<>>, writes |-> <<>>,
     calls |-> <<>>, reads |-> <<>>,
     outputAt |-> Indeterminate, inPlace |-> FALSE, loops |-> <<>>,
     out |-> [c \in 0..(blkOut - 1) |-> <<>>]]

\* M + bufferSize - 1 with M = k * hopSize + hopSize
FixedOutputCapacity(N, hop, bufferSize) ==
    LET k == PrepareK(bufferSize, hop)
        M == k * hop + hop
    IN  M + bufferSize - 1

\* prepare (spec) with spec.numChannels = nCh, spec.maximumBlockSize = bufferSize
FixedPrepare(t, nCh, bufferSize) ==
    [t EXCEPT !.nyu = Buffer(nCh, fftSize - 1, PoisonSample),
              !.fft = Buffer(nCh, 2 * fftSize, Poison),
              !.ob = Buffer(nCh, FixedOutputCapacity(fftSize, hopSize, bufferSize), Zero),
              !.oo = fftSize - 1,
              !.cnt = 0,
              !.flt = {}, !.log = <<>>, !.writes = <<>>, !.calls = <<>>,
              !.reads = <<>>, !.loops = <<>>,
              !.out = [c \in DOMAIN t.out |-> <<>>]]

\* reset(): notYetUsedAudioDataCount = 0
FixedReset(t) == [t EXCEPT !.cnt = 0]

\* virtual processFrameInBuffer(), the default
FixedProcessFrameInBuffer(m) ==
    [m EXCEPT !.calls = Append(@, [seen |-> FrameIn(m.fft),
                                    written |-> Len(m.log)])]

\* addFrom (ch, outputOffset, ..., 0, hopSize) and
\* copyFrom (ch, outputOffset + hopSize, ..., hopSize, hopSize)
FixedOverlapAddRow(obRow, fftRow, oo) ==
    [j \in DOMAIN obRow |->
        IF j >= oo /\ j < oo + hopSize
        THEN obRow[j] (+) fftRow[j - oo]
        ELSE IF j >= oo + hopSize /\ j < oo + 2 * hopSize
             THEN fftRow[j - oo]
             ELSE obRow[j]]

FixedWriteBackFrame(m) ==
    LET nCh == NumChannels(m.ob)
        flt == (IF nCh > NumChannels(m.fft) THEN {"writeBackChannel"} ELSE {})
               \cup
               (IF m.oo < 0 \/ m.oo + 2 * hopSize > NumSamples(m.ob)
                THEN {"writeBackRange"} ELSE {})
        ob2 == [c \in DOMAIN m.ob |-> FixedOverlapAddRow(m.ob[c], m.fft[c], m.oo)]
    IN  [m EXCEPT !.flt = m.flt \cup flt,
                  !.writes = Append(m.writes, m.oo),
                  !.log = Append(m.log, <<FrameStart(m.fft), fed + m.oo>>),
                  !.ob = IF flt = {} THEN ob2 ELSE m.ob,
                  !.oo = m.oo + hopSize]

\* processAndBufferOutput()
FixedProcessAndBufferOutput(m) == FixedWriteBackFrame(FixedProcessFrameInBuffer(m))

\* a frame is built in channels that fftInOutBuffer does not have
FixedFrameChannels(m, nChannels) ==
    IF nChannels > NumChannels(m.fft) \/ nChannels > NumChannels(m.nyu)
    THEN [m EXCEPT !.flt = @ \cup {"frameChannel"}] ELSE m

\* lines 119-143
RECURSIVE FixedCarryLoop(_, _, _, _)
FixedCarryLoop(m, L, nChannels, off) ==
    IF m.flt = {} /\ m.cnt > 0 /\ m.cnt + L >= fftSize
    THEN LET built == FixedFrameChannels(FrameFromCarry(m, L, nChannels, off), nChannels)
             done == IF built.flt = {} THEN FixedProcessAndBufferOutput(built)
                     ELSE built
         IN  FixedCarryLoop([done EXCEPT !.cnt = m.cnt - hopSize],
                            L, nChannels, off + hopSize)
    ELSE m

\* lines 162-173
RECURSIVE FixedDirectLoop(_, _, _, _)
FixedDirectLoop(m, L, nChannels, dataOffset) ==
    IF m.flt = {} /\ L - dataOffset >= fftSize
    THEN LET built == FixedFrameChannels(FrameFromInput(m, L, nChannels, dataOffset), nChannels)
             done == IF built.flt = {} THEN FixedProcessAndBufferOutput(built)
                     ELSE built
         IN  FixedDirectLoop(done, L, nChannels, dataOffset + hopSize)
    ELSE <<m, dataOffset>>

\* lines 175-185: the samples the frame loop left over become the carry-over
FixedStoreRemaining(r, L, nChannels) ==
    LET m2 == r[1]
        dataOffset == r[2]
        remainingSamples == L - dataOffset
        flt == IF remainingSamples > 0
                  /\ (remainingSamples > NumSamples(m2.nyu) \/ dataOffset < 0
                      \/ nChannels > NumChannels(m2.nyu))
               THEN {"carryWrite"} ELSE {}
    IN  IF m2.flt # {} THEN m2 ELSE
        [m2 EXCEPT
           !.flt = m2.flt \cup flt,
           !.nyu = IF flt # {} \/ remainingSamples <= 0 THEN m2.nyu
                   ELSE [c \in DOMAIN m2.nyu |->
                           IF c < nChannels
                           THEN [j \in DOMAIN m2.nyu[c] |->
                                   IF j < remainingSamples
                                   THEN InputAt(c, dataOffset + j, L)
                                   ELSE m2.nyu[c][j]]
                           ELSE m2.nyu[c]],
           !.cnt = remainingSamples]

\* lines 158-186
FixedConsumeInput(m, L, nChannels) ==
    FixedStoreRemaining(FixedDirectLoop(m, L, nChannels, 0 - m.cnt), L, nChannels)

FixedShiftLength_FullFrame(oo, L, capacity) ==
    LET shiftL == oo + fftSize - L
        tooMuch == L + shiftL - capacity
    IN  [tooMuch |-> tooMuch,
         shiftL |-> IF tooMuch > 0 THEN shiftL - tooMuch ELSE shiftL]

\* lines 191-198: shiftL = outputOffset + hopSize - L, less tooMuch
FixedShiftLength(oo, L, capacity) ==
    LET shiftStart == L
        shiftL == oo + hopSize - L
        tooMuch == shiftStart + shiftL - capacity
    IN  [tooMuch |-> tooMuch,
         shiftL |-> IF tooMuch > 0 THEN shiftL - tooMuch ELSE shiftL]

\* lines 200-205: every channel of the output block is served from outputBuffer
FixedReturnSamples(m, L, numOut) ==
    LET s == FixedShiftLength(m.oo, L, NumSamples(m.ob))
        flt == (IF numOut > NumChannels(m.ob) THEN {"outputChannel"} ELSE {})
               \cup (IF L > NumSamples(m.ob) THEN {"outputRead"} ELSE {})
               \cup (IF s.shiftL < 0 \/ L + s.shiftL > NumSamples(m.ob)
                     THEN {"shiftRange"} ELSE {})
    IN  [m EXCEPT
           !.flt = m.flt \cup flt,
           !.out = IF flt # {} THEN m.out
                   ELSE [c \in DOMAIN m.out |->
                           m.out[c] \o [j \in 1..L |-> CellAt(m.ob, c, j - 1, Poison)]],
           !.ob = IF flt # {} THEN m.ob
                  ELSE [c \in DOMAIN m.ob |->
                          IF c < numOut THEN CopyWithin(m.ob[c], 0, L, s.shiftL)
                          ELSE m.ob[c]],
           !.oo = IF flt # {} THEN m.oo ELSE m.oo - L]

\* lines 145-186: what follows the loop over the carry-over, m1 being the
\* machine that loop left
FixedAfterCarryLoop(t, m1, L, nChannels) ==
    IF m1.flt # {} THEN m1
    ELSE IF m1.cnt > 0
         THEN FixedFrameChannels(KeepCarry(m1, L, nChannels, t.cnt), nChannels)
         ELSE FixedConsumeInput(m1, L, nChannels)

\* a call that left a buffer leaves the object as it was, but for the fault
FixedOutcome(t, m) == IF m.flt # {} THEN [t EXCEPT !.flt = m.flt] ELSE m

\* lines 189-205 applied to the machine m2 that the frame loops left
FixedReturnBuffered(t, m2, L) ==
    IF m2.flt # {} THEN [t EXCEPT !.flt = m2.flt]
    ELSE FixedOutcome(t, FixedReturnSamples(m2, L, host.blkOut))

\* process (context) with a block of L samples
FixedProcess(t, L) ==
    IF t.flt # {} THEN t
    ELSE FixedReturnBuffered(
             t,
             FixedAfterCarryLoop(t, FixedCarryLoop([t EXCEPT !.reads = <<>>, !.loops = <<>>],
                                                   L, host.blkIn, 0),
                                 L, host.blkIn),
             L)

\* the exponents of the pairs of engines, and the one channel count that
\* both prepare calls and all blocks of a pair have
VariantExponents == 1..3

InitVariants ==
    \E e \in VariantExponents, backward \in BOOLEAN :
        \E layout \in {l \in BlockLayouts(2^e) : l[1] = l[2]} :
            /\ Constructed(e, 1, backward, layout)
            /\ twin = FixedConstructed(2^e, layout[2])

PrepareBoth ==
    /\ PrepareEngine
    /\ nChIn' = host.blkIn
    /\ nChOut' = host.blkIn
    /\ twin' = FixedPrepare(twin, host.blkIn, host'.maxBlock)

ProcessBoth ==
    /\ ProcessBlocks(BlockLengths)
    /\ twin' = FixedProcess(twin, last'.L)

NextVariants == PrepareBoth \/ ProcessBoth

SpecVariants == InitVariants /\ [][NextVariants]_vars

\* the calls go on for as long as the variant has not left its buffers
VariantIntact == twin.flt = {}

PrepareIntact == VariantIntact /\ PrepareBoth

ProcessIntact == VariantIntact /\ ProcessBoth

\* reset() called on both engines between their calls
ResetBoth ==
    /\ VariantIntact
    /\ ResetEngine
    /\ twin' = FixedReset(twin)

NextVariantsReset == PrepareIntact \/ ProcessIntact \/ ResetBoth

SpecVariantsReset == InitVariants /\ [][NextVariantsReset]_vars

(***************************************************************************)
(* Callers that also pass blocks longer than the maximumBlockSize they     *)
(* gave to prepare, by up to MaxOverrun samples.                           *)
(***************************************************************************)
MaxOverrun == 1

OversizedLengths == BlockLengths \cup
    (IF host.maxBlock = ScenarioBlock THEN {}
     ELSE (host.maxBlock + 1)..(host.maxBlock + MaxOverrun))

ProcessOversized == ProcessBlocks(OversizedLengths) /\ UNCHANGED twin

NextOversized == Prepare \/ ProcessOversized \/ Reset

SpecOversized == Init /\ [][NextOversized]_vars

(***************************************************************************)
(* The engine prepared for blocks of any length from 0 on                  *)
(* (spec.maximumBlockSize is whatever the host announces).                 *)
(***************************************************************************)
\* the arguments of PrepareArgs and the same with maximumBlockSize = 0
PrepareArgsFromZero ==
    PrepareArgs \cup {[a EXCEPT !.maxBlock = 0] : a \in PrepareArgs}

PrepareAnyBlockSize == PrepareWith(PrepareArgsFromZero) /\ UNCHANGED twin

NextAnyBlockSize == PrepareAnyBlockSize \/ Process \/ Reset

SpecAnyBlockSize == Init /\ [][NextAnyBlockSize]_vars

(***************************************************************************)
(* Engines constructed against the constructor's two jasserts (lines 70    *)
(* and 73): hopSizeDividerAsPowerOf2 = 0 gives hopSize = fftSize, and      *)
(* hopSizeDividerAsPowerOf2 > fftSizeAsPowerOf2 gives hopSize = 0.  A      *)
(* failed jassert stops a build that breaks on assertions and is not even  *)
(* evaluated by the others; the division fftSize / hopSize of createWindow *)
(* by 0 traps on the targets that trap on it.                              *)
(***************************************************************************)
MisconfiguredConfigs == {<<1, 0>>, <<1, 2>>}

ConstructorOutcomes(e, d) ==
    {{}, {"jassert"}} \cup (IF d > e THEN {{"divideByZero"}} ELSE {})

InitMisconfigured ==
    /\ \E c \in MisconfiguredConfigs, backward \in BOOLEAN :
          \E layout \in BlockLayouts(2^c[1]), stopped \in ConstructorOutcomes(c[1], c[2]) :
              Construct(c[1], c[2], backward, layout, stopped)
    /\ twin = Absent

SpecMisconfigured == InitMisconfigured /\ [][Next]_vars

(***************************************************************************)
(* Evaluation of symbolic cells.                                           *)
(***************************************************************************)
\* the input signals cells are evaluated for: x[ch][t] = 1.0 and x[ch][t] = t + 1
SignalAt(sig, ch, t) == IF sig = "constant" THEN 1 ELSE t + 1

\* the value of a cell, in units of 1/One, for the window w and the signal sig
RECURSIVE SumTerms(_, _, _, _)
SumTerms(S, cell, w, sig) ==
    IF S = {} THEN 0
    ELSE LET t == CHOOSE x \in S : TRUE
         IN  CopiesIn(t, cell) * SignalAt(sig, t[1], t[2]) * w[t[3]]
             + SumTerms(S \ {t}, cell, w, sig)

Value(cell, w, sig) == SumTerms(BagToSet(cell), cell, w, sig)

Abs(x) == IF x < 0 THEN 0 - x ELSE x

\* channels of the output block that process fills from outputBuffer
ProducedChannels == {c \in DOMAIN outStream : c < Min(host.blkOut, nChOut)}
\* produced channels whose frames are built from an input channel
FedChannels == {c \in ProducedChannels : c < Min(host.blkIn, nChIn)}

\* outStream[c] as a function of the 0-based output stream index
Emitted(c, p) == outStream[c][p + 1]
EmittedCount(c) == Len(outStream[c])

(***************************************************************************)
(* C1: every process call of length L writes exactly L samples to every    *)
(* channel of the output block, so after any sequence of calls the number  *)
(* of samples emitted on each channel equals the number of samples fed.    *)
(***************************************************************************)
C1_SampleConservation ==
    host.prepared => \A c \in DOMAIN outStream : EmittedCount(c) = fed

C1_Witness ==
    /\ host.prepared /\ fault = {}
    /\ fed > fftSize /\ last.L > 1 /\ last.L < fed
    /\ ProducedChannels # {}

(***************************************************************************)
(* C2 as stated: the frame starting at input index i is overlap-added at   *)
(* output stream index i + (fftSize - hopSize), and the first              *)
(* fftSize - hopSize output samples receive no frame contribution.  The    *)
(* k-th frame (k = 1, 2, ...) starts at input index (k - 1) * hopSize.     *)
(***************************************************************************)
C2_LatencyFftMinusHop ==
    /\ \A k \in 1..Len(frameLog) :
          frameLog[k][2] = (k - 1) * hopSize + (fftSize - hopSize)
    /\ \A c \in ProducedChannels :
          \A p \in 0..(Min(fftSize - hopSize, EmittedCount(c)) - 1) :
              Emitted(c, p) = Zero

(***************************************************************************)
(* C2 amended: the latency is fftSize - 1 for every chunking: the first    *)
(* fftSize - 1 output samples receive no frame contribution and the frame  *)
(* starting at input index i is overlap-added at output index              *)
(* i + (fftSize - 1).                                                      *)
(***************************************************************************)
C2_LatencyFftMinusOne ==
    /\ \A k \in 1..Len(frameLog) :
          frameLog[k][2] = (k - 1) * hopSize + (fftSize - 1)
    /\ \A c \in ProducedChannels :
          \A p \in 0..(Min(fftSize - 1, EmittedCount(c)) - 1) :
              Emitted(c, p) = Zero

C2_Witness ==
    /\ Len(frameLog) >= 3 /\ hopSize > 1 /\ fault = {}
    /\ Len(last.writes) >= 1 /\ last.L < fftSize
    /\ \E c \in ProducedChannels : EmittedCount(c) > fftSize

(***************************************************************************)
(* The output a stream produces when no copy disturbs it: the sample at    *)
(* output index p sums the terms x[t] * window[i] with t = p - (fftSize-1) *)
(* of every frame start t - i >= 0 that is a multiple of hopSize.          *)
(***************************************************************************)
OverlapIndices(t) ==
    {i \in 0..(fftSize - 1) : t - i >= 0 /\ (t - i) % hopSize = 0}

RefOut(c, p) ==
    LET t == p - (fftSize - 1)
    IN  IF t < 0 THEN Zero ELSE SetToBag({<<c, t, i>> : i \in OverlapIndices(t)})

(***************************************************************************)
(* C3: block-size independence: whatever the sequence of block lengths,    *)
(* the samples emitted for a stream are the same, i.e. every emitted       *)
(* sample equals the chunking-independent overlap-add sum RefOut.          *)
(***************************************************************************)
C3_BlockSizeIndependence ==
    \A c \in FedChannels :
        \A p \in 0..(EmittedCount(c) - 1) : Emitted(c, p) = RefOut(c, p)

\* the same, on the builds whose memcpy moves overlapping floats upwards
C3_OnForwardBuilds == memcpyBackward \/ C3_BlockSizeIndependence

\* a chunking of a backward build that does emit RefOut
C3_SomeChunkingAgrees ==
    /\ memcpyBackward /\ fftSize = 4 /\ hopSize = 2 /\ fed >= 9
    /\ FedChannels # {} /\ C3_BlockSizeIndependence

(***************************************************************************)
(* C4: identity round trip: with the default no-op transform and a window  *)
(* whose overlapping copies sum to 1 (ColaWindow), the output delayed by   *)
(* the engine latency equals the input (here the ramp signal), the latency *)
(* being either the documented fftSize - hopSize or the fftSize - 1 that   *)
(* prepare sets up.                                                        *)
(***************************************************************************)
RoundTripWithLatency(lat) ==
    \A c \in FedChannels :
        \A p \in 0..(EmittedCount(c) - 1 - lat) :
            LET cell == Emitted(c, p + lat)
            IN  /\ ~IsPoisoned(cell)
                /\ Value(cell, ColaWindow(fftSize, hopSize), "ramp")
                     = One * SignalAt("ramp", c, p)

C4_IdentityRoundTrip ==
    \/ RoundTripWithLatency(fftSize - hopSize)
    \/ RoundTripWithLatency(fftSize - 1)

\* what does hold where memcpy moves overlapping floats upwards: the
\* identity with latency fftSize - 1, from input index fftSize - hopSize on
C4_OnForwardBuilds ==
    memcpyBackward \/
    \A c \in FedChannels :
        \A p \in (fftSize - hopSize)..(EmittedCount(c) - 1 - (fftSize - 1)) :
            Value(Emitted(c, p + (fftSize - 1)), ColaWindow(fftSize, hopSize), "ramp")
              = One * SignalAt("ramp", c, p)

(***************************************************************************)
(* C5: constant overlap-add: for every hop the coefficients of the default *)
(* window that overlap on one output sample sum to 1.0 (within Tolerance). *)
(***************************************************************************)
Tolerance == One \div 100

IsCola(w) ==
    \A r \in 0..(hopSize - 1) :
        Abs(OverlapSum(w, fftSize, hopSize, r) - One) <= Tolerance

C5_ConstantOverlapAdd == IsCola(window)

(***************************************************************************)
(* C6: the scenario frame 16, hop 4, mono, one call of 64 samples of 1.0.  *)
(***************************************************************************)
Scenario ==
    /\ fftSize = 2^ScenarioConfig[1]
    /\ hopSize = fftSize \div (2^ScenarioConfig[2])
    /\ host.prepared /\ fault = {}
    /\ fed = ScenarioBlock /\ last.L = ScenarioBlock

OutValue(p) == Value(Emitted(0, p), window, "constant")

\* C6 as stated: the first fftSize - hopSize = 12 output samples are 0 and
\* each of the remaining 52 is 1.0
C6_ScenarioAsStated ==
    Scenario =>
        \A p \in 0..(ScenarioBlock - 1) :
            IF p < fftSize - hopSize THEN OutValue(p) = 0
            ELSE Abs(OutValue(p) - One) <= Tolerance

\* C6 amended: the first fftSize = 16 output samples are 0 (15 receive no
\* frame, the 16th is weighted by window[0] = 0), samples 15..26 receive
\* 1, 1, 1, 1, 2, ... 3 frames (start-up ramp), and samples 27..63 each
\* receive the full overlap of 4 frames, which sums to between 0.93 and 0.95
C6_ScenarioAmended ==
    Scenario =>
        \A p \in 0..(ScenarioBlock - 1) :
            LET cell == Emitted(0, p)
                t == p - (fftSize - 1)
            IN  /\ p < fftSize - 1 => cell = Zero
                /\ p < fftSize => OutValue(p) = 0
                /\ (t >= 0 /\ t < fftSize - hopSize)
                     => BagCardinality(cell) = (t \div hopSize) + 1
                /\ t >= fftSize - hopSize
                     => /\ BagCardinality(cell) = fftSize \div hopSize
                        /\ OutValue(p) >= (93 * One) \div 100
                        /\ OutValue(p) <= (95 * One) \div 100

C6_Witness == Scenario /\ ~memcpyBackward

(***************************************************************************)
(* C7: every overlap-add write of writeBackFrame covers indices            *)
(* [outputOffset, outputOffset + fftSize) inside [0, capacity), where      *)
(* capacity = k*hopSize + (fftSize - hopSize) + maxBlockSize - 1 and       *)
(* k = floor (1 + (maxBlockSize - 1) / hopSize).                           *)
(***************************************************************************)
ClaimedCapacity ==
    LET k == 1 + ((host.maxBlock - 1) \div hopSize)
    IN  k * hopSize + (fftSize - hopSize) + host.maxBlock - 1

C7_WritesInsideCapacity ==
    host.prepared =>
        /\ NumSamples(outputBuffer) = ClaimedCapacity
        /\ \A i \in 1..Len(last.writes) :
              /\ last.writes[i] >= 0
              /\ last.writes[i] + fftSize <= ClaimedCapacity

C7_Witness ==
    /\ host.prepared /\ Len(last.writes) >= 2
    /\ last.writes[Len(last.writes)] + fftSize = host.maxBlock + fftSize - 1

(***************************************************************************)
(* C8 as stated: the requested left shift never exceeds the output buffer, *)
(* so the truncation branch (tooMuch > 0) is never taken.                  *)
(***************************************************************************)
C8_NeverTruncated == last.tooMuch <= 0

\* C8 amended: the truncation branch is never taken in a call at whose end
\* at least fftSize samples have been fed since prepare (a frame has been
\* completed); before that it is taken when maxBlockSize is small
C8_NotTruncatedOnceFramed == fed >= fftSize => last.tooMuch <= 0

C8_Witness ==
    /\ host.prepared /\ fault = {} /\ fed >= fftSize
    /\ last.L = host.maxBlock /\ last.tooMuch = 0

(***************************************************************************)
(* C9: the shift clamp never drops real data: whenever a call takes the    *)
(* truncation branch, no frame has been completed and the output buffer    *)
(* holds no frame contribution at all.                                     *)
(***************************************************************************)
C9_ClampDropsNothing ==
    last.tooMuch > 0 =>
        /\ frameLog = <<>>
        /\ \A c \in DOMAIN outputBuffer :
              \A j \in DOMAIN outputBuffer[c] : outputBuffer[c][j] = Zero

C9_Witness == last.tooMuch > 0 /\ last.L > 0 /\ fault = {} /\ fed > last.L

(***************************************************************************)
(* C10: every channel index process and writeBackFrame use on the          *)
(* carry-over, frame and output buffers is smaller than the channel count  *)
(* the buffer was allocated with.                                          *)
(***************************************************************************)
C10_ChannelSizing == fault \cap {"writeBackChannel", "outputChannel"} = {}

(***************************************************************************)
(* C11: prepare is a full reset of the counters from any state: whatever   *)
(* was processed before and whatever maxBlockSize it is given, it leaves   *)
(* outputOffset = fftSize - 1, notYetUsedAudioDataCount = 0 and the output *)
(* buffer all zeros.                                                       *)
(***************************************************************************)
AllZero(buf) ==
    \A c \in DOMAIN buf : \A j \in DOMAIN buf[c] : buf[c][j] = Zero

C11_PrepareResets ==
    last.op = "prepare" =>
        /\ outputOffset = fftSize - 1
        /\ notYetUsedAudioDataCount = 0
        /\ AllZero(outputBuffer)

\* prepare called with a carry-over pending and frames already written
C11_Witness ==
    /\ last.op = "prepare" /\ last.prevCount > 0 /\ last.prevFrames > 0
    /\ host.maxBlock > 1

(***************************************************************************)
(* C12: reset() clears the carry-over accounting without reallocating:     *)
(* after reset() on a prepared engine the carry-over count is 0 (and the   *)
(* buffers keep their capacities).                                         *)
(***************************************************************************)
C12_ResetClearsCount ==
    (host.prepared /\ last.op = "reset") => notYetUsedAudioDataCount = 0

\* what reset() does: it leaves the carry-over count as it was
C12_ResetKeepsCount ==
    last.op = "reset" => notYetUsedAudioDataCount = last.prevCount

(***************************************************************************)
(* C13: processFrameInBuffer is invoked exactly once per completed frame   *)
(* and in stream order: after fed input samples it has been invoked        *)
(* max(0, floor((fed - fftSize)/hopSize) + 1) times, the n-th invocation   *)
(* (n from 0) sees the windowed input samples at stream indices            *)
(* [n*hopSize, n*hopSize + fftSize), and each invocation is followed by    *)
(* that frame's overlap-add before the next frame is built.                *)
(***************************************************************************)
FramesCompleted(T) == IF T < fftSize THEN 0 ELSE ((T - fftSize) \div hopSize) + 1

WindowedFrame(c, start) ==
    [i \in 0..(fftSize - 1) |-> Windowed(<<c, start + i>>, i)]

TransformCount == Len(transformLog) = FramesCompleted(fed)

TransformOrder ==
    /\ Len(frameLog) = Len(transformLog)
    /\ \A n \in 1..Len(transformLog) : transformLog[n].written = n - 1

TransformSees ==
    \A n \in 1..Len(transformLog) :
        \A c \in 0..(Min(host.blkIn, nChIn) - 1) :
            transformLog[n].seen[c] = WindowedFrame(c, (n - 1) * hopSize)

C13_OncePerFrameInOrder ==
    host.prepared => (TransformCount /\ TransformOrder /\ TransformSees)

\* the same where memcpy moves overlapping floats upwards
C13_OnForwardBuilds == memcpyBackward \/ C13_OncePerFrameInOrder

\* count and order alone hold on every build
C13_CountAndOrder == host.prepared => (TransformCount /\ TransformOrder)

(***************************************************************************)
(* C14: zero-fill of surplus output channels: in every process call each   *)
(* channel of the caller's output block with index >= min (channels of the *)
(* block, numOutputChannels given to prepare) receives exactly L zeros,    *)
(* and no channel below that index is zero-filled by this step.            *)
(***************************************************************************)
LastBlock(c) == SubSeq(outStream[c], fed - last.L + 1, fed)

C14_SurplusZeroFilled ==
    (last.op = "process" /\ fault = {}) =>
        /\ last.cleared = {c \in DOMAIN outStream : c >= Min(host.blkOut, nChOut)}
        /\ \A c \in DOMAIN outStream :
              /\ Len(outStream[c]) = fed
              /\ c \in last.cleared =>
                    \A j \in 1..last.L : LastBlock(c)[j] = Zero

\* a call that zero-fills channel 1 while channel 0 receives frame output
C14_Witness ==
    /\ last.op = "process" /\ fault = {} /\ last.L > 1
    /\ host.blkOut = 2 /\ nChOut = 1
    /\ last.cleared = {1}
    /\ LastBlock(0)[last.L] # Zero

(***************************************************************************)
(* C15: a configuration error is fatal at construction: an engine          *)
(* constructed with hopDivider < 1 or hopDivider > fftSizeExponent is      *)
(* never usable, i.e. no prepare or process call on it is executed as a    *)
(* normal operation.                                                       *)
(***************************************************************************)
ValidConfig == hopSize >= 1 /\ 2 * hopSize <= fftSize

C15_MisconfiguredUnusable ==
    ~ValidConfig => (~host.prepared /\ last.op = "construct")

\* C15, the case hopSize = 0: no process call runs its frame loops
C15_NoFrameLoopWithoutHop ==
    hopSize = 0 => ("endlessLoop" \notin fault /\ frameLog = <<>>)

(***************************************************************************)
(* C16: window override point: when a derived engine overrides             *)
(* createWindow() (here with ColaWindow), the override is what runs during *)
(* construction and the window it leaves, not the default Hann window, is  *)
(* the window member that process multiplies into each frame.              *)
(***************************************************************************)
C16_OverrideWindowUsed ==
    /\ window = ColaWindow(fftSize, hopSize)
    /\ window # createWindow(fftSize, hopSize)

\* what construction leaves, whatever the derived class overrides
C16_DefaultWindowKept == window = createWindow(fftSize, hopSize)

(***************************************************************************)
(* C17: defensive clamping on overrun: for a process call of any length L, *)
(* also L larger than the maxBlockSize given to prepare, no read or write  *)
(* of the output buffer (overlap-add of writeBackFrame, copy of the first  *)
(* L samples to the caller, left shift) touches an index outside           *)
(* [0, allocated length).                                                  *)
(***************************************************************************)
C17_OutputBufferAccessInRange ==
    fault \cap {"writeBackRange", "outputRead", "shiftRange"} = {}

(***************************************************************************)
(* C18: variant equivalence: FftWithHopSizeAndHannWindowProcessor          *)
(* <fftPowerOf2> and OverlappingFFTProcessor (fftPowerOf2, 1), given the   *)
(* same channel count and the same sequence of prepare and process calls,  *)
(* go through the same carry-over counts and hop offsets, build the same   *)
(* frames with the same window and emit the same output samples at every   *)
(* call.                                                                   *)
(***************************************************************************)
C18_VariantsAgree ==
    twin.engaged =>
        /\ twin.window = window
        /\ twin.cnt = notYetUsedAudioDataCount
        /\ twin.flt = fault
        /\ host.prepared =>
              /\ twin.oo = outputOffset
              /\ twin.calls = transformLog
              /\ twin.log = frameLog
              /\ twin.out = outStream
              /\ twin.ob = outputBuffer
              /\ twin.nyu = notYetUsedAudioData

\* both engines have written three frames, the last call completing one
\* from the carry-over
C18_Witness ==
    /\ twin.engaged /\ host.prepared /\ fault = {}
    /\ Len(twin.log) >= 3 /\ Len(frameLog) >= 3
    /\ last.prevCount > 0 /\ last.writes # <<>>
    /\ twin.out = outStream

(***************************************************************************)
(* C19: carry-over bound: at every call boundary of a prepared engine      *)
(* (after prepare and after each process call of any length L >= 0) the    *)
(* carry-over count satisfies 0 <= count <= fftSize - 1, and every write   *)
(* into the carry-over buffer during process covers only indices in        *)
(* [0, fftSize - 1).                                                       *)
(***************************************************************************)
C19_CarryBounded ==
    host.prepared =>
        /\ notYetUsedAudioDataCount >= 0
        /\ notYetUsedAudioDataCount <= fftSize - 1
        /\ NumSamples(notYetUsedAudioData) = fftSize - 1
        /\ fault \cap {"carryWrite", "carryRead"} = {}

\* a call that appended to a kept carry-over and filled the buffer
C19_Witness ==
    /\ host.prepared /\ fault = {} /\ last.op = "process"
    /\ last.prevCount > 0 /\ last.L > 0
    /\ notYetUsedAudioDataCount = fftSize - 1
    /\ fftSize > 2

(***************************************************************************)
(* C20: carry-over content: at every call boundary, with fed input samples *)
(* and F frames completed since prepare, the carry-over count equals       *)
(* fed - F*hopSize and the first count entries of the carry-over buffer    *)
(* are, in order, the input samples at stream indices [F*hopSize, fed).    *)
(***************************************************************************)
CarryCountExact ==
    notYetUsedAudioDataCount = fed - Len(frameLog) * hopSize

C20_CarryHoldsNextFrame ==
    host.prepared =>
        /\ CarryCountExact
        /\ \A c \in 0..(Min(host.blkIn, nChIn) - 1) :
              \A j \in 0..(notYetUsedAudioDataCount - 1) :
                  notYetUsedAudioData[c][j] = <<c, Len(frameLog) * hopSize + j>>

\* the same where memcpy moves overlapping floats upwards
C20_OnForwardBuilds == memcpyBackward \/ C20_CarryHoldsNextFrame

\* the count alone is exact on every build
C20_CountExact == host.prepared => CarryCountExact

(***************************************************************************)
(* C21: hop-offset accounting: outputOffset changes only by +hopSize at    *)
(* each completed frame and by -L at the end of each process call, so at   *)
(* every call boundary since prepare it equals                             *)
(* (fftSize - 1) + hopSize * (frames completed) - (samples emitted), and   *)
(* the i-th frame of a call is written at the offset the call started with *)
(* plus (i - 1) * hopSize.  A call that stopped at an out-of-range access  *)
(* has not returned and is no call boundary.                               *)
(***************************************************************************)
HopOffsetAt(frames, emitted) == (fftSize - 1) + hopSize * frames - emitted

C21_HopOffsetAccounting ==
    (host.prepared /\ fault = {}) =>
        /\ outputOffset = HopOffsetAt(Len(frameLog), fed)
        /\ \A c \in DOMAIN outStream : EmittedCount(c) = fed
        /\ \A i \in 1..Len(last.writes) :
              last.writes[i] = HopOffsetAt(last.prevFrames + i - 1, fed - last.L)

C21_Witness ==
    /\ host.prepared /\ fault = {} /\ last.op = "process"
    /\ Len(last.writes) >= 2 /\ last.prevFrames >= 1
    /\ last.L > 0 /\ hopSize > 1
    /\ outputOffset = HopOffsetAt(Len(frameLog), fed)

(***************************************************************************)
(* C22: output-buffer content: at every call boundary, with E samples      *)
(* emitted, every entry j in [0, outputOffset + fftSize - hopSize) of a    *)
(* served channel of outputBuffer equals the sum, over the frames          *)
(* completed so far, of the frame's transformed sample that falls on       *)
(* output stream position E + j (zero if none).                            *)
(***************************************************************************)
\* the sample of the k-th completed frame that falls on stream position p
FrameSampleAt(k, c, p) ==
    LET i == p - frameLog[k][2]
    IN  IF i >= 0 /\ i < fftSize /\ c \in DOMAIN transformLog[k].seen
        THEN transformLog[k].seen[c][i] ELSE Zero

RECURSIVE AccumulatedAt(_, _, _)
AccumulatedAt(k, c, p) ==
    IF k = 0 THEN Zero
    ELSE AccumulatedAt(k - 1, c, p) (+) FrameSampleAt(k, c, p)

\* the channels of outputBuffer that process copies to the output block
ServedChannels == ProducedChannels \cap DOMAIN outputBuffer

\* entry j of channel c holds what the completed frames put on position E + j
HoldsTailAt(c, j) ==
    /\ j \in DOMAIN outputBuffer[c]
    /\ outputBuffer[c][j] = AccumulatedAt(Len(frameLog), c, fed + j)

OutputBufferHoldsTail(chans) ==
    \A c \in chans :
        \A j \in 0..(outputOffset + fftSize - hopSize - 1) : HoldsTailAt(c, j)

\* the same for the entries the buffer has
OutputBufferHoldsTailInside(chans) ==
    \A c \in chans :
        \A j \in 0..(Min(outputOffset + fftSize - hopSize,
                         NumSamples(outputBuffer)) - 1) : HoldsTailAt(c, j)

C22_OutputBufferContent ==
    (host.prepared /\ fault = {}) => OutputBufferHoldsTail(ServedChannels)

\* C22 for the entries the buffer has: after prepare with a small
\* maximumBlockSize the range [0, outputOffset + fftSize - hopSize) is longer
\* than outputBuffer
C22_ContentInsideBuffer ==
    (host.prepared /\ fault = {}) => OutputBufferHoldsTailInside(ServedChannels)

C22_OnForwardBuilds == memcpyBackward \/ C22_ContentInsideBuffer

\* once a frame has been completed the claimed range lies inside the buffer
C22_OnceFramedOnForwardBuilds ==
    (host.prepared /\ fault = {} /\ ~memcpyBackward /\ frameLog # <<>>) =>
        OutputBufferHoldsTail(ServedChannels)

\* the same for every channel writeBackFrame writes, served or not
C22_EveryWrittenChannel ==
    (host.prepared /\ fault = {} /\ ~memcpyBackward) =>
        OutputBufferHoldsTailInside({c \in DOMAIN outputBuffer : c < nChOut})

(***************************************************************************)
(* C23: overlap-add write shape: every completed frame adds its first      *)
(* fftSize - hopSize samples to outputBuffer at                            *)
(* [outputOffset, outputOffset + fftSize - hopSize) and overwrites         *)
(* [outputOffset + fftSize - hopSize, outputOffset + fftSize) with its     *)
(* last hopSize samples, and when it overwrites no earlier frame has       *)
(* contributed to the overwritten output stream positions: what the        *)
(* overwrite discards is never frame data of those positions, and stale    *)
(* content does not survive it.                                            *)
(***************************************************************************)
\* the i-th writeBackFrame of the last call wrote the frame it was handed in
\* the shape addFrom / copyFrom
WriteShape(i) ==
    LET k == last.prevFrames + i
        r == last.rows[i]
    IN  \A c \in DOMAIN r.after :
            \A j \in 0..(fftSize - 1) :
                r.after[c][j] =
                    IF j < fftSize - hopSize
                    THEN r.before[c][j] (+) transformLog[k].seen[c][j]
                    ELSE transformLog[k].seen[c][j]

\* no frame before the k-th contributed to the positions the k-th overwrites
OverwritesFreshPositions(k) ==
    \A c \in DOMAIN transformLog[k].seen :
        \A p \in (frameLog[k][2] + fftSize - hopSize)..(frameLog[k][2] + fftSize - 1) :
            AccumulatedAt(k - 1, c, p) = Zero

\* a term x[t] * window[i] belongs to output stream position t + fftSize - 1;
\* no term the i-th writeBackFrame of the last call overwrote belonged to
\* the position of the entry it was discarded from
DiscardsNoFrameData(i) ==
    LET r == last.rows[i]
        p0 == (fed - last.L) + last.writes[i]
    IN  \A c \in DOMAIN r.before :
            \A j \in (fftSize - hopSize)..(fftSize - 1) :
                \A t \in BagToSet(r.before[c][j]) :
                    t[2] + fftSize - 1 # p0 + j

C23_OverlapAddShape ==
    (host.prepared /\ fault = {}) =>
        /\ Len(last.rows) = Len(last.writes)
        /\ \A i \in 1..Len(last.rows) : WriteShape(i) /\ DiscardsNoFrameData(i)
        /\ \A k \in 1..Len(frameLog) : OverwritesFreshPositions(k)

\* a frame after the first whose overwrite discards stale content
C23_Witness ==
    /\ host.prepared /\ fault = {} /\ last.op = "process"
    /\ last.prevFrames >= 1 /\ Len(last.rows) >= 1 /\ hopSize > 1
    /\ \E c \in DOMAIN last.rows[1].before :
          /\ last.rows[1].before[c][fftSize - 1] # Zero
          /\ last.rows[1].before[c][fftSize - 1] # Poison
          /\ last.rows[1].before[c][0] # Zero

\* the overwritten entries are not always empty
C23_OverwritesOnlyZeros ==
    \A i \in 1..Len(last.rows) :
        \A c \in DOMAIN last.rows[i].before :
            \A j \in (fftSize - hopSize)..(fftSize - 1) :
                last.rows[i].before[c][j] = Zero

(***************************************************************************)
(* C24: overlap count: every output stream position at or after the end of *)
(* the start-up ramp is covered by exactly fftSize / hopSize completed     *)
(* frames, with the window indices r, r + hopSize, ..., r + fftSize -      *)
(* hopSize, one from each frame, and the sample emitted for it holds the   *)
(* contribution of every one of them: none is added after the emission.    *)
(* The ramp ends at the first position that fftSize / hopSize frames       *)
(* cover, (fftSize - 1) + (fftSize - hopSize).                             *)
(***************************************************************************)
RampEnd == (fftSize - 1) + (fftSize - hopSize)

\* the completed frames whose fftSize samples cover output stream position p
CoveringFrames(p) ==
    {k \in 1..Len(frameLog) :
        frameLog[k][2] <= p /\ p < frameLog[k][2] + fftSize}

ResidueIndices(p) ==
    LET r == (p - (fftSize - 1)) % hopSize
    IN  {r + n * hopSize : n \in 0..((fftSize \div hopSize) - 1)}

CoveredByAllFrames(p) ==
    /\ Cardinality(CoveringFrames(p)) = fftSize \div hopSize
    /\ {p - frameLog[k][2] : k \in CoveringFrames(p)} = ResidueIndices(p)

C24_FramesCoverPositions ==
    (host.prepared /\ fault = {}) =>
        \A p \in RampEnd..(fed - 1) : CoveredByAllFrames(p)

\* the emitted sample is the sum of the covering frames' samples
EmittedHoldsAllFrames(c, p) ==
    LET cell == Emitted(c, p)
    IN  /\ cell = AccumulatedAt(Len(frameLog), c, p)
        /\ BagCardinality(cell) = fftSize \div hopSize
        /\ {t[3] : t \in BagToSet(cell)} = ResidueIndices(p)

C24_OverlapCount ==
    (host.prepared /\ fault = {}) =>
        \A p \in RampEnd..(fed - 1) :
            /\ CoveredByAllFrames(p)
            /\ \A c \in FedChannels : EmittedHoldsAllFrames(c, p)

C24_OnForwardBuilds == memcpyBackward \/ C24_OverlapCount

(***************************************************************************)
(* C25: frame of process: a process call changes only the content of the   *)
(* carry-over buffer and its count, the content of the frame buffer, the   *)
(* content of the output buffer and the hop offset; it leaves the window   *)
(* (coefficients and length fftSize), the capacities of the three buffers, *)
(* the channel counts set by prepare, fftSize and hopSize unchanged.       *)
(***************************************************************************)
\* channels and samples per channel of a buffer
Capacity(buf) == [c \in DOMAIN buf |-> DOMAIN buf[c]]

ProcessKeeps ==
    /\ window' = window
    /\ DOMAIN window' = 0..(fftSize - 1)
    /\ fftSize' = fftSize
    /\ hopSize' = hopSize
    /\ nChIn' = nChIn
    /\ nChOut' = nChOut
    /\ Capacity(notYetUsedAudioData') = Capacity(notYetUsedAudioData)
    /\ Capacity(fftInOutBuffer') = Capacity(fftInOutBuffer)
    /\ Capacity(outputBuffer') = Capacity(outputBuffer)

C25_FrameOfProcess == [][last'.op = "process" => ProcessKeeps]_vars

\* a call that changed every member process may change
C25_Witness ==
    /\ host.prepared /\ fault = {} /\ last.op = "process"
    /\ last.L > 0 /\ Len(last.writes) >= 1
    /\ notYetUsedAudioDataCount # last.prevCount
    /\ notYetUsedAudioDataCount > 0
    /\ outputOffset # fftSize - 1
    /\ \E c \in DOMAIN outputBuffer :
          \E j \in DOMAIN outputBuffer[c] : outputBuffer[c][j] # Zero

(***************************************************************************)
(* C26: at every call boundary of a prepared engine (after prepare and     *)
(* after every process call of any length)                                 *)
(* outputOffset + notYetUsedAudioDataCount = fftSize - 1.                  *)
(***************************************************************************)
C26_OffsetPlusCount ==
    (host.prepared /\ fault = {}) =>
        outputOffset + notYetUsedAudioDataCount = fftSize - 1

C26_Witness ==
    /\ host.prepared /\ fault = {} /\ last.op = "process"
    /\ Len(last.writes) >= 1 /\ last.prevCount > 0
    /\ notYetUsedAudioDataCount > 0 /\ outputOffset > 0
    /\ notYetUsedAudioDataCount # last.prevCount

(***************************************************************************)
(* C27: the hop offset is never negative: at every call boundary           *)
(* 0 <= outputOffset <= fftSize - 1, once at least fftSize samples have    *)
(* been fed 0 <= outputOffset <= hopSize - 1, and every writeBackFrame     *)
(* inside a call writes at an offset >= 0.                                 *)
(***************************************************************************)
C27_OffsetRange ==
    (host.prepared /\ fault = {}) =>
        /\ 0 <= outputOffset /\ outputOffset <= fftSize - 1
        /\ fed >= fftSize => outputOffset <= hopSize - 1
        /\ \A i \in 1..Len(last.writes) : last.writes[i] >= 0

C27_Witness ==
    /\ host.prepared /\ fault = {} /\ last.op = "process"
    /\ fed >= fftSize /\ hopSize > 1
    /\ outputOffset = hopSize - 1
    /\ Len(last.writes) >= 1

(***************************************************************************)
(* C28: input reads stay inside the delivered block: in every process call *)
(* of length L every read of the input block (the input head of a frame    *)
(* built on the carry-over, a frame read at dataOffset, the remainder      *)
(* copied into the carry-over) covers only sample indices in [0, L), and   *)
(* when the loop over the carry-over ends with a non-positive count,       *)
(* 0 <= dataOffset <= L, so the remaining sample count L - dataOffset      *)
(* is >= 0.                                                                *)
(***************************************************************************)
\* a read of number samples from index first on lies inside a block of L
ReadInside(read, L) ==
    /\ read[1] >= 0
    /\ read[2] >= 0
    /\ read[1] + read[2] <= L

C28_InputReadsInsideBlock ==
    (host.prepared /\ last.op = "process") =>
        /\ \A i \in 1..Len(last.reads) : ReadInside(last.reads[i], last.L)
        /\ "inputRead" \notin fault
        /\ last.dataOffset # Indeterminate =>
               (0 <= last.dataOffset /\ last.dataOffset <= last.L)

\* the carry-over loop ended below zero and a remainder was kept
C28_Witness ==
    /\ host.prepared /\ fault = {} /\ last.op = "process"
    /\ last.prevCount > 0 /\ last.dataOffset > 0
    /\ last.dataOffset < last.L
    /\ Len(last.reads) >= 3

(***************************************************************************)
(* C29: in-place safety: within one process call every read of the input   *)
(* block happens before the first write to the output block, so a call     *)
(* whose input and output block are the same memory (a replacing context,  *)
(* as processBlock of the plugin uses) builds its frames and its           *)
(* carry-over from the unmodified input and leaves the same members and    *)
(* the same output as the call with separate blocks.                       *)
(***************************************************************************)
\* the members and the output block a call of length L leaves when the
\* blocks are the same memory (aliased) or not
OutcomeOfCall(aliased, L) ==
    LET numChOut == Min(host.blkOut, nChOut)
        b == BufferedFrom([Machine EXCEPT !.inPlace = aliased], L)
        m == IF b.flt = {} THEN ReturnSamples(b, L, numChOut) ELSE b
    IN  [nyu |-> m.nyu, cnt |-> m.cnt, fft |-> m.fft, ob |-> m.ob,
         oo |-> m.oo, flt |-> m.flt, log |-> m.log, calls |-> m.calls,
         block |-> OutputBlock(b, L, numChOut)]

\* the call that ended read the input block only before it wrote the output
ReadsPrecedeOutput ==
    (last.op = "process" /\ fault = {}) => last.outputAt = Len(last.reads)

\* whatever block comes next, it may be processed in place
InPlaceAsSeparate ==
    fault = {} =>
        \A L \in BlockLengths :
            fed + L <= StreamLimit => OutcomeOfCall(TRUE, L) = OutcomeOfCall(FALSE, L)

C29_InPlaceSafety ==
    host.prepared => (ReadsPrecedeOutput /\ InPlaceAsSeparate)

\* an in-place call that built a frame on the carry-over, another on the
\* input alone and kept a remainder, all before it returned samples
C29_Witness ==
    /\ host.prepared /\ fault = {} /\ last.op = "process"
    /\ last.inPlace /\ last.L > 0
    /\ last.prevCount > 0 /\ Len(last.writes) >= 2
    /\ last.dataOffset # Indeterminate /\ last.dataOffset < last.L
    /\ last.outputAt >= 3

(***************************************************************************)
(* C30: every process call on an engine with hopSize >= 1 terminates, for  *)
(* every block length and in every reachable state: each iteration of the  *)
(* loop over the carry-over begins with a count that is positive and       *)
(* hopSize below that of the iteration before, each iteration of the       *)
(* direct loop with a dataOffset that is at most L - fftSize and hopSize   *)
(* above that of the iteration before, so the call makes at most           *)
(* (count + L) / hopSize iterations and none of its loops runs forever.    *)
(***************************************************************************)
\* iteration i of the call that ended is followed by an iteration of the
\* same loop whose variant moved by hopSize, or by the first of the direct
\* loop
VariantMoves(i) ==
    LET this == last.loops[i]
        next == last.loops[i + 1]
    IN  IF this[1] = "carry" /\ next[1] = "carry"
        THEN next[2] = this[2] - hopSize /\ next[2] < this[2]
        ELSE /\ next[1] = "direct"
             /\ this[1] = "direct" =>
                    (next[2] = this[2] + hopSize /\ next[2] > this[2])

\* iteration i began with its guard true (lines 142 and 186)
GuardHeld(i) ==
    LET this == last.loops[i]
    IN  IF this[1] = "carry"
        THEN this[2] > 0 /\ this[2] <= last.prevCount
             /\ this[2] + last.L >= fftSize
        ELSE this[2] >= 0 /\ last.L - this[2] >= fftSize

C30_ProcessTerminates ==
    (host.prepared /\ hopSize >= 1 /\ last.op = "process") =>
        /\ "endlessLoop" \notin fault
        /\ \A i \in 1..Len(last.loops) : GuardHeld(i)
        /\ \A i \in 1..(Len(last.loops) - 1) : VariantMoves(i)
        /\ Len(last.loops) * hopSize <= last.prevCount + last.L

\* a call that ran the loop over the carry-over and the direct loop twice
C30_Witness ==
    /\ host.prepared /\ hopSize >= 1 /\ fault = {} /\ last.op = "process"
    /\ Len(last.loops) >= 3
    /\ last.loops[1][1] = "carry"
    /\ last.loops[Len(last.loops) - 1][1] = "direct"

(***************************************************************************)
(* C31: prepare terminates for every maximumBlockSize >= 0, 0 included:    *)
(* its offset-search loop "while (offset < fftSize) offset += bufferSize"  *)
(* always reaches its exit.                                                *)
(***************************************************************************)
C31_PrepareTerminates ==
    last.op = "prepare" =>
        ("endlessLoop" \notin fault /\ last.search # Indeterminate)

\* C31 for maximumBlockSize >= 1: the loop ends with the first offset that
\* is not below fftSize, after at most fftSize iterations
C31_TerminatesForPositiveSizes ==
    (last.op = "prepare" /\ last.bufferSize >= 1) =>
        /\ "endlessLoop" \notin fault
        /\ last.search >= 1 /\ last.search <= fftSize
        /\ last.search * last.bufferSize >= fftSize
        /\ (last.search - 1) * last.bufferSize < fftSize

\* C31 for maximumBlockSize = 0: the loop has no exit; prepare returns only
\* on builds that dropped the loop
C31_NoExitForEmptyBlocks ==
    (last.op = "prepare" /\ last.bufferSize = 0) =>
        (last.search = Indeterminate /\ (fault = {} => host.maxBlock = 0))

(***************************************************************************)
(* C32: re-prepare isolation: two engines of the same configuration with   *)
(* different input histories that are prepared with the same arguments     *)
(* (numOutputChannels <= numInputChannels) and then given the same process *)
(* calls emit the same samples; no sample fed before prepare influences a  *)
(* sample emitted after it.  Two such engines differ, when prepare         *)
(* returns, only in what they hold where prepare wrote nothing (setSize    *)
(* keeps or reallocates the memory and leaves its content as it is); that  *)
(* content is the poison of this model, so they emit the same samples      *)
(* exactly if prepare leaves every other member fixed by its arguments and *)
(* no emitted sample carries poison.                                       *)
(***************************************************************************)
\* prepare left the members a newly constructed engine would have
PreparedAfresh ==
    /\ notYetUsedAudioData = Buffer(nChIn, fftSize - 1, PoisonSample)
    /\ fftInOutBuffer = Buffer(Max(nChIn, nChOut), 2 * fftSize, Poison)
    /\ outputBuffer = Buffer(nChIn, OutputCapacity(fftSize, hopSize, host.maxBlock), Zero)
    /\ outputOffset = fftSize - 1
    /\ notYetUsedAudioDataCount = 0

\* the samples emitted since prepare on the channels chans carry nothing
\* but samples fed since prepare
EmittedFromFedSamples(chans) ==
    \A c \in chans :
        \A p \in 0..(EmittedCount(c) - 1) : ~IsPoisoned(Emitted(c, p))

C32_ReprepareIsolation ==
    (host.prepared /\ fault = {} /\ nChOut <= nChIn) =>
        /\ last.op = "prepare" => PreparedAfresh
        /\ EmittedFromFedSamples(ProducedChannels)

\* C32 for the produced channels that have an input channel
C32_FedChannelsIsolated ==
    (host.prepared /\ fault = {}) =>
        /\ last.op = "prepare" => PreparedAfresh
        /\ EmittedFromFedSamples(FedChannels)

\* C32 for calls whose input block has a channel for every produced one
C32_IsolatedWhenAllFed ==
    (host.prepared /\ fault = {} /\ nChOut <= nChIn
        /\ Min(host.blkOut, nChOut) <= host.blkIn) =>
        /\ last.op = "prepare" => PreparedAfresh
        /\ EmittedFromFedSamples(ProducedChannels)

(***************************************************************************)
(* C33: in the compile-time variant FftWithHopSizeAndHannWindowProcessor   *)
(* <fftPowerOf2>, calling reset() between process calls in any reachable   *)
(* state and then continuing with process calls of L <= maxBlockSize keeps *)
(* the output offset >= 0 at every writeBackFrame and every overlap-add    *)
(* write inside the output buffer.                                         *)
(***************************************************************************)
C33_ResetKeepsWritesInside ==
    twin.engaged =>
        /\ "writeBackRange" \notin twin.flt
        /\ \A i \in 1..Len(twin.writes) : twin.writes[i] >= 0

\* what reset() does to the accounting: the carry-over count it clears is
\* missing from outputOffset + notYetUsedAudioDataCount ever after
C33_ResetLosesCount ==
    (twin.engaged /\ host.prepared /\ twin.flt = {}) =>
        /\ twin.oo + twin.cnt <= fftSize - 1
        /\ (last.op = "reset" /\ last.prevCount > 0) =>
               twin.oo + twin.cnt < fftSize - 1

====
